---------------------------- MODULE Spec2Model ----------------------------
(***************************************************************************)
(* Load / unload and bring-up path of the i915 driver                      *)
(* (shared-core/i915_init.c).                                              *)
(*                                                                         *)
(* The driver runs on one thread at attach / detach time, so the model is  *)
(* a sequential program: pc is the statement about to execute, one action  *)
(* per statement (or per straight-line group of statements).  The DRM core *)
(* is the environment: it calls i915_driver_load and i915_driver_unload.   *)
(*                                                                         *)
(* Sizes are `unsigned long'.  They are modelled as 32-bit words (the      *)
(* i386 build), held as two 16-bit limbs <<hi, lo>> so that the arithmetic *)
(* of i915_probe_agp keeps its width.                                      *)
(***************************************************************************)
EXTENDS Integers, Sequences, FiniteSets, TLC

\* ------------------------------------------------------------------------
\* Bounds of the model
\* ------------------------------------------------------------------------
\* number of load/unload calls the DRM core makes in one behaviour
MaxCalls == 3
\* BAR2 lengths tried are 0 and 2^k for MinBarExp <= k <= MaxBarExp
MinBarExp == 24
MaxBarExp == 30

\* ------------------------------------------------------------------------
\* unsigned long arithmetic (32-bit words as two 16-bit limbs)
\* ------------------------------------------------------------------------
Limb == 2^16

Word(n) == <<(n \div Limb) % Limb, n % Limb>>

Pow2Word(k) == IF k < 16 THEN <<0, 2^k>> ELSE <<(2^(k - 16)) % Limb, 0>>

WAdd(a, b) ==
    LET lo == a[2] + b[2]
        hi == a[1] + b[1] + (lo \div Limb)
    IN  <<hi % Limb, lo % Limb>>

\* a - b modulo 2^32
WSub(a, b) ==
    LET lo     == a[2] - b[2]
        borrow == IF lo < 0 THEN 1 ELSE 0
        hi     == a[1] - b[1] - borrow
    IN  <<(hi + 2 * Limb) % Limb, (lo + Limb) % Limb>>

\* a * k modulo 2^32, for a small factor k
WMul(a, k) ==
    LET lo == a[2] * k
        hi == a[1] * k + (lo \div Limb)
    IN  <<hi % Limb, lo % Limb>>

\* a / 1024
WDiv1024(a) == Word(a[1] * 64 + (a[2] \div 1024))

WLe(a, b) == a[1] < b[1] \/ (a[1] = b[1] /\ a[2] <= b[2])

\* bitwise and of two naturals
RECURSIVE BitAnd(_, _)
BitAnd(a, b) ==
    IF a = 0 \/ b = 0 THEN 0
    ELSE (a % 2) * (b % 2) + 2 * BitAnd(a \div 2, b \div 2)

\* ------------------------------------------------------------------------
\* Device identity and register encodings (i915_drv.h, pci_ids.h)
\* ------------------------------------------------------------------------
LegacyIds == {"82830_CGC", "82845G_IG", "82855GM_IG", "82865_IG"}

DeviceIds == LegacyIds \cup {"82915G_IG", "G33_IG"}

IS_G33(id) == id = "G33_IG"

IS_I9XX(id) == id \notin LegacyIds

INTEL_GMCH_MEM_MASK == 1
INTEL_GMCH_MEM_64M == 1
INTEL_855_GMCH_GMS_MASK == 112
INTEL_855_GMCH_GMS_DISABLED == 0
INTEL_855_GMCH_GMS_STOLEN_1M == 16
INTEL_855_GMCH_GMS_STOLEN_4M == 32
INTEL_855_GMCH_GMS_STOLEN_8M == 48
INTEL_855_GMCH_GMS_STOLEN_16M == 64
INTEL_855_GMCH_GMS_STOLEN_32M == 80
INTEL_915G_GMCH_GMS_STOLEN_48M == 96
INTEL_915G_GMCH_GMS_STOLEN_64M == 112

\* the sentinel cleanup writes to HWS_PGA (0x1ffff000)
HWS_DISABLED == 536866816

PAGE_SIZE == 4096

ENOMEM == 12
ENODEV == 19
EINVAL == 22

\* values of the 16-bit GMCH control register: every stolen-memory
\* encoding and both aperture encodings, with the other bits clear or set
TmpValues == {16 * g + b + o : g \in 0..7, b \in 0..1, o \in {0, 65422}}

\* pci_resource_len(pdev, 2)
BarLens == {Word(0)} \cup {Pow2Word(k) : k \in MinBarExp..MaxBarExp}

\* what an uninitialised unsigned long local may hold
UninitWords == {Word(0), <<Limb - 1, Limb - 1>>}

MiB == Word(1024 * 1024)

\* ------------------------------------------------------------------------
\* i915_probe_agp: the values of (return, *aperture_size,
\* *preallocated_size) when it returns.  ap0 and pre0 are what the two
\* outputs held on entry; written tells whether the outputs were stored to.
\* ------------------------------------------------------------------------
ApertureOf(id, tmp, bar2) ==
    IF id \in LegacyIds
    THEN IF BitAnd(tmp, INTEL_GMCH_MEM_MASK) = INTEL_GMCH_MEM_64M
         THEN WMul(MiB, 64)
         ELSE WMul(MiB, 128)
    ELSE bar2

Overhead(aperture) == WAdd(WDiv1024(aperture), Word(4096))

\* the disabled encoding decoded as 1M (case GMS_DISABLED falling into the
\* default of "1M already", lines 70-71, for the return of lines 90-92)
StolenFactor_DisabledIs1M(tmp) ==
    LET gms == BitAnd(tmp, INTEL_855_GMCH_GMS_MASK)
    IN  CASE gms = INTEL_855_GMCH_GMS_STOLEN_4M -> 4
          [] gms = INTEL_855_GMCH_GMS_STOLEN_8M -> 8
          [] gms = INTEL_855_GMCH_GMS_STOLEN_16M -> 16
          [] gms = INTEL_855_GMCH_GMS_STOLEN_32M -> 32
          [] gms = INTEL_915G_GMCH_GMS_STOLEN_48M -> 48
          [] gms = INTEL_915G_GMCH_GMS_STOLEN_64M -> 64
          [] OTHER -> 1

\* the factor the stolen-memory field selects; 0 for an error case
StolenFactor(tmp) ==
    LET gms == BitAnd(tmp, INTEL_855_GMCH_GMS_MASK)
    IN  CASE gms = INTEL_855_GMCH_GMS_STOLEN_1M -> 1
          [] gms = INTEL_855_GMCH_GMS_STOLEN_4M -> 4
          [] gms = INTEL_855_GMCH_GMS_STOLEN_8M -> 8
          [] gms = INTEL_855_GMCH_GMS_STOLEN_16M -> 16
          [] gms = INTEL_855_GMCH_GMS_STOLEN_32M -> 32
          [] gms = INTEL_915G_GMCH_GMS_STOLEN_48M -> 48
          [] gms = INTEL_915G_GMCH_GMS_STOLEN_64M -> 64
          [] OTHER -> 0

\* the overhead added where the source subtracts it (+= for -=, line 98)
i915_probe_agp_AddsOverhead(id, bridge_found, tmp, bar2, ap0, pre0) ==
    IF ~bridge_found
    THEN [ret |-> -1, aperture_size |-> ap0, preallocated_size |-> pre0,
          written |-> FALSE]
    ELSE LET ap == ApertureOf(id, tmp, bar2)
             m  == StolenFactor(tmp)
         IN  IF m = 0
             THEN [ret |-> -1, aperture_size |-> ap,
                   preallocated_size |-> MiB, written |-> TRUE]
             ELSE [ret |-> 0, aperture_size |-> ap,
                   preallocated_size |-> WAdd(WMul(MiB, m), Overhead(ap)),
                   written |-> TRUE]

i915_probe_agp(id, bridge_found, tmp, bar2, ap0, pre0) ==
    IF ~bridge_found
    THEN [ret |-> -1, aperture_size |-> ap0, preallocated_size |-> pre0,
          written |-> FALSE]
    ELSE LET ap == ApertureOf(id, tmp, bar2)
             m  == StolenFactor(tmp)
         IN  IF m = 0
             THEN [ret |-> -1, aperture_size |-> ap,
                   preallocated_size |-> MiB, written |-> TRUE]
             ELSE [ret |-> 0, aperture_size |-> ap,
                   preallocated_size |-> WSub(WMul(MiB, m), Overhead(ap)),
                   written |-> TRUE]

\* bus addresses drm_pci_alloc may hand out, and offsets (hws->start) the
\* range allocator may hand out
DmaAddrs == {256 * PAGE_SIZE, 512 * PAGE_SIZE}

HwsOffsets == {0, PAGE_SIZE}

\* what a failing collaborator returns
FailRets == {-ENOMEM, -EINVAL}

\* a local that is out of scope
NoWord == <<>>

\* ------------------------------------------------------------------------
\* State
\* ------------------------------------------------------------------------
VARIABLES
    pc,            \* the statement about to execute; "idle" between calls
    device,        \* dev->pdev->device
    modeset,       \* drm_core_check_feature(dev, DRIVER_MODESET)
    dev_private,   \* dev->dev_private: "NULL", "live" or "freed" (dangling)
    priv,          \* the fields of *dev_priv
    devname,       \* dev->devname is non-NULL
    HWS_PGA,       \* the hardware status page address register
    agp_size,      \* locals of i915_load_modeset_init
    prealloc_size,
    probe_ret,     \* what i915_probe_agp returned (the caller drops it)
    probe_in,      \* what that call of i915_probe_agp read and stored
    ret_m,         \* ret of i915_load_modeset_init
    ret,           \* ret of i915_driver_load
    struct_mutex,  \* dev->struct_mutex is locked
    retpc,         \* where i915_cleanup_hwstatus returns to
    held,          \* resources the kernel currently holds for the driver
    faults,        \* memory faults the driver has committed
    log,           \* collaborator calls and register writes of this call
    calls,         \* the calls the DRM core has completed, with results
    failed_stage   \* first bring-up stage that failed in this load

vars == <<pc, device, modeset, dev_private, priv, devname, HWS_PGA, agp_size,
          prealloc_size, probe_ret, probe_in, ret_m, ret, struct_mutex,
          retpc, held,
          faults, log, calls, failed_stage>>

ident == <<device, modeset>>

locals == <<agp_size, prealloc_size, probe_ret, probe_in>>

\* no call of i915_probe_agp is on record
NoProbe == [bridge |-> FALSE, tmp |-> 0, bar2 |-> Word(0), written |-> FALSE]

\* *dev_priv after memset(dev_priv, 0, ...)
ZeroPriv ==
    [mmio_map |-> FALSE, status_page_dmah |-> FALSE, dma_status_page |-> 0,
     hws |-> FALSE, hws_agpoffset |-> 0, hws_map_handle |-> FALSE,
     hws_vaddr |-> "NULL", allow_batchbuffer |-> 0,
     max_validate_buffers |-> "0", cmdbuf_mutex |-> "uninit", wq |-> FALSE,
     vram |-> FALSE, ring |-> FALSE, gtt |-> FALSE, next_gem_seqno |-> 0]

Resources ==
    {"priv", "mmio_map", "vram", "gem", "ring", "status_dmah", "hws_block",
     "hws_map", "wq", "modeset", "devname", "irq"}

Init ==
    /\ pc = "idle"
    /\ device \in DeviceIds
    /\ modeset \in BOOLEAN
    /\ dev_private = "NULL"
    /\ priv = ZeroPriv
    /\ devname = FALSE
    /\ HWS_PGA \in {0, HWS_DISABLED}
    /\ agp_size = NoWord
    /\ prealloc_size = NoWord
    /\ probe_ret = 0
    /\ probe_in = NoProbe
    /\ ret_m = 0
    /\ ret = 0
    /\ struct_mutex = FALSE
    /\ retpc = "idle"
    /\ held = {}
    /\ faults = {}
    /\ log = <<>>
    /\ calls = <<>>
    /\ failed_stage = "none"

\* ------------------------------------------------------------------------
\* Helpers
\* ------------------------------------------------------------------------
Do(ev) == log' = Append(log, ev)

Acquire(r) == held' = held \cup {r}

\* releasing what is not held is a double free
Release(r) ==
    IF r \in held
    THEN /\ held' = held \ {r}
         /\ UNCHANGED faults
    ELSE /\ faults' = faults \cup {<<"double_release", r>>}
         /\ UNCHANGED held

\* the call returns r to the DRM core
Return(call, r) ==
    /\ calls' = Append(calls, <<call, r>>)
    /\ pc' = "idle"

Fails(stage) ==
    failed_stage' = IF failed_stage = "none" THEN stage ELSE failed_stage

\* the last load succeeded and no unload has completed since
Loaded == calls # <<>> /\ calls[Len(calls)] = <<"load", 0>>

\* I915_WRITE goes through dev_priv->mmio_map: it needs a live private
\* block whose map pointer designates an installed mapping
MmioOk == dev_private = "live" /\ priv.mmio_map /\ "mmio_map" \in held

\* ------------------------------------------------------------------------
\* The DRM core
\* ------------------------------------------------------------------------
CallLoad ==
    /\ pc = "idle"
    /\ Len(calls) < MaxCalls
    /\ ~Loaded
    /\ pc' = "l_alloc"
    /\ log' = <<>>
    /\ failed_stage' = "none"
    /\ ret' = 0
    /\ ret_m' = 0
    /\ probe_ret' = 0
    /\ UNCHANGED <<ident, dev_private, priv, devname, HWS_PGA, agp_size,
                   prealloc_size, probe_in, struct_mutex, retpc, held,
                   faults, calls>>

CallUnload ==
    /\ pc = "idle"
    /\ Len(calls) < MaxCalls
    /\ pc' = "u_prb0"
    /\ log' = <<>>
    /\ failed_stage' = "none"
    /\ ret' = 0
    /\ ret_m' = 0
    /\ probe_ret' = 0
    /\ UNCHANGED <<ident, dev_private, priv, devname, HWS_PGA, agp_size,
                   prealloc_size, probe_in, struct_mutex, retpc, held,
                   faults, calls>>

\* ------------------------------------------------------------------------
\* i915_driver_load
\* ------------------------------------------------------------------------
\* 274-295: allocate and zero the private block, publish it in
\* dev->dev_private.  (The counters, stat types, cursor flag and stolen
\* base set here are plain stores that no later statement of this file
\* reads.)
l_alloc ==
    /\ pc = "l_alloc"
    /\ \E ok \in BOOLEAN :
         IF ok
         THEN /\ priv' = ZeroPriv
              /\ dev_private' = "live"
              /\ Acquire("priv")
              /\ Do("alloc_priv")
              /\ pc' = "l_mmio"
              /\ UNCHANGED <<ret, calls>>
         ELSE /\ ret' = -ENOMEM
              /\ Return("load", -ENOMEM)
              /\ UNCHANGED <<priv, dev_private, held, log>>
    /\ UNCHANGED <<ident, devname, HWS_PGA, locals, ret_m, struct_mutex,
                   retpc, faults, failed_stage>>

\* 297-316: find the register window
l_mmio ==
    /\ pc = "l_mmio"
    /\ \E res1 \in BOOLEAN :
         IF IS_I9XX(device) \/ res1
         THEN /\ pc' = "l_addmap"
              /\ UNCHANGED ret
         ELSE /\ ret' = -ENODEV
              /\ pc' = "free_priv"
    /\ UNCHANGED <<ident, dev_private, priv, devname, HWS_PGA, locals, ret_m,
                   struct_mutex, retpc, held, faults, log, calls,
                   failed_stage>>

\* a failed drm_addmap leaving through out_rmmap (for the goto free_priv
\* of line 325)
l_addmap_FailureUnmaps ==
    /\ pc = "l_addmap"
    /\ \E r \in {0} \cup FailRets :
         /\ ret' = r
         /\ IF r # 0
            THEN /\ pc' = "out_rmmap"
                 /\ UNCHANGED <<priv, held>>
            ELSE /\ priv' = [priv EXCEPT !.mmio_map = TRUE,
                                         !.next_gem_seqno = 1]
                 /\ Acquire("mmio_map")
                 /\ pc' = "l_modeset"
    /\ Do("addmap")
    /\ UNCHANGED <<ident, dev_private, devname, HWS_PGA, locals, ret_m,
                   struct_mutex, retpc, faults, calls, failed_stage>>

\* 320-339: install the register mapping, then initialise the memory
\* manager's lists, timer, work items and sequence number
l_addmap ==
    /\ pc = "l_addmap"
    /\ \E r \in {0} \cup FailRets :
         /\ ret' = r
         /\ IF r # 0
            THEN /\ pc' = "free_priv"
                 /\ UNCHANGED <<priv, held>>
            ELSE /\ priv' = [priv EXCEPT !.mmio_map = TRUE,
                                         !.next_gem_seqno = 1]
                 /\ Acquire("mmio_map")
                 /\ pc' = "l_modeset"
    /\ Do("addmap")
    /\ UNCHANGED <<ident, dev_private, devname, HWS_PGA, locals, ret_m,
                   struct_mutex, retpc, faults, calls, failed_stage>>

\* the bring-up entered whatever the mode (line 347 without its test)
l_modeset_AlwaysBringsUp ==
    /\ pc = "l_modeset"
    /\ pc' = "m_probe"
    /\ UNCHANGED <<ident, dev_private, priv, devname, HWS_PGA, locals, ret_m,
                   ret, struct_mutex, retpc, held, faults, log, calls,
                   failed_stage>>

\* 347-348, 354: bring the device up in mode-setting mode only
l_modeset ==
    /\ pc = "l_modeset"
    /\ IF modeset
       THEN /\ pc' = "m_probe"
            /\ UNCHANGED calls
       ELSE Return("load", 0)
    /\ UNCHANGED <<ident, dev_private, priv, devname, HWS_PGA, locals, ret_m,
                   ret, struct_mutex, retpc, held, faults, log,
                   failed_stage>>

\* 348-354: ret = i915_load_modeset_init(dev); if (ret < 0) goto out_rmmap
l_modeset_ret ==
    /\ pc = "l_modeset_ret"
    /\ ret' = ret_m
    /\ IF ret_m < 0
       THEN /\ pc' = "out_rmmap"
            /\ UNCHANGED calls
       ELSE Return("load", 0)
    /\ UNCHANGED <<ident, dev_private, priv, devname, HWS_PGA, locals, ret_m,
                   struct_mutex, retpc, held, faults, log, failed_stage>>

\* 356-357
out_rmmap ==
    /\ pc = "out_rmmap"
    /\ Release("mmio_map")
    /\ Do("rmmap")
    /\ pc' = "free_priv"
    /\ UNCHANGED <<ident, dev_private, priv, devname, HWS_PGA, locals, ret_m,
                   ret, struct_mutex, retpc, calls, failed_stage>>

\* 358-360: the block is freed; dev->dev_private keeps pointing at it
free_priv ==
    /\ pc = "free_priv"
    /\ Release("priv")
    /\ dev_private' = "freed"
    /\ Do("free_priv")
    /\ Return("load", ret)
    /\ UNCHANGED <<ident, priv, devname, HWS_PGA, locals, ret_m, ret,
                   struct_mutex, retpc, failed_stage>>

\* ------------------------------------------------------------------------
\* i915_load_modeset_init
\* ------------------------------------------------------------------------
\* 195: i915_probe_agp(dev->pdev, &agp_size, &prealloc_size); the return
\* value is dropped.  The two locals are uninitialised on entry; what they
\* held matters only when the bridge is absent (they are not stored to),
\* the register only when it is present, BAR2 only for a 9xx device.
m_probe ==
    /\ pc = "m_probe"
    /\ \E bridge \in BOOLEAN :
       \E tmp \in IF bridge THEN TmpValues ELSE {0},
          bar2 \in IF bridge /\ IS_I9XX(device) THEN BarLens ELSE {Word(0)},
          ap0 \in IF bridge THEN {Word(0)} ELSE UninitWords,
          pre0 \in IF bridge THEN {Word(0)} ELSE UninitWords :
         LET r == i915_probe_agp(device, bridge, tmp, bar2, ap0, pre0)
         IN  /\ agp_size' = r.aperture_size
             /\ prealloc_size' = r.preallocated_size
             /\ probe_ret' = r.ret
             /\ probe_in' = [bridge |-> bridge, tmp |-> tmp, bar2 |-> bar2,
                             written |-> r.written]
             /\ IF r.ret # 0 THEN Fails("probe_agp")
                             ELSE UNCHANGED failed_stage
    /\ Do("probe_agp")
    /\ pc' = "m_memrange_init"
    /\ UNCHANGED <<ident, dev_private, priv, devname, HWS_PGA, ret_m, ret,
                   struct_mutex, retpc, held, faults, calls>>

\* 198: drm_memrange_init(&dev_priv->vram, 0, prealloc_size)
m_memrange_init ==
    /\ pc = "m_memrange_init"
    /\ priv' = [priv EXCEPT !.vram = TRUE]
    /\ Acquire("vram")
    /\ Do("memrange_init")
    /\ pc' = "m_gem_do_init"
    /\ UNCHANGED <<ident, dev_private, devname, HWS_PGA, locals, ret_m, ret,
                   struct_mutex, retpc, faults, calls, failed_stage>>

\* 200: i915_gem_do_init(dev, prealloc_size, agp_size); the last use of the
\* two locals
m_gem_do_init ==
    /\ pc = "m_gem_do_init"
    /\ priv' = [priv EXCEPT !.gtt = TRUE]
    /\ Acquire("gem")
    /\ Do("gem_do_init")
    /\ agp_size' = NoWord
    /\ prealloc_size' = NoWord
    /\ probe_in' = NoProbe
    /\ pc' = "m_ring"
    /\ UNCHANGED <<ident, dev_private, devname, HWS_PGA, probe_ret, ret_m,
                   ret, struct_mutex, retpc, faults, calls, failed_stage>>

\* 202-204: ret = i915_gem_init_ringbuffer(dev); if (ret) goto out
m_ring ==
    /\ pc = "m_ring"
    /\ \E r \in {0} \cup FailRets :
         /\ ret_m' = r
         /\ IF r # 0
            THEN /\ Fails("init_ringbuffer")
                 /\ pc' = "out"
                 /\ UNCHANGED <<priv, held>>
            ELSE /\ priv' = [priv EXCEPT !.ring = TRUE]
                 /\ Acquire("ring")
                 /\ pc' = "h_entry"
                 /\ UNCHANGED failed_stage
    /\ Do("init_ringbuffer")
    /\ UNCHANGED <<ident, dev_private, devname, HWS_PGA, locals, ret,
                   struct_mutex, retpc, faults, calls>>

\* 206-208: ret = i915_init_hwstatus(dev); if (ret) goto destroy_ringbuffer
m_hws_ret ==
    /\ pc = "m_hws_ret"
    /\ IF ret_m # 0
       THEN /\ Fails("init_hwstatus")
            /\ pc' = "destroy_ringbuffer"
       ELSE /\ pc' = "m_flags"
            /\ UNCHANGED failed_stage
    /\ UNCHANGED <<ident, dev_private, priv, devname, HWS_PGA, locals, ret_m,
                   ret, struct_mutex, retpc, held, faults, log, calls>>

\* 212-214
m_flags ==
    /\ pc = "m_flags"
    /\ priv' = [priv EXCEPT !.allow_batchbuffer = 1,
                            !.max_validate_buffers = "I915_MAX_VALIDATE_BUFFERS",
                            !.cmdbuf_mutex = "unlocked"]
    /\ Do("mutex_init")
    /\ pc' = "m_wq"
    /\ UNCHANGED <<ident, dev_private, devname, HWS_PGA, locals, ret_m, ret,
                   struct_mutex, retpc, held, faults, calls, failed_stage>>

\* 216-221
m_wq ==
    /\ pc = "m_wq"
    /\ \E ok \in BOOLEAN :
         IF ok
         THEN /\ priv' = [priv EXCEPT !.wq = TRUE]
              /\ Acquire("wq")
              /\ pc' = "m_bios"
              /\ UNCHANGED <<ret_m, failed_stage>>
         ELSE /\ ret_m' = -EINVAL
              /\ Fails("create_workqueue")
              /\ pc' = "destroy_hws"
              /\ UNCHANGED <<priv, held>>
    /\ Do("create_workqueue")
    /\ UNCHANGED <<ident, dev_private, devname, HWS_PGA, locals, ret,
                   struct_mutex, retpc, faults, calls>>

\* 223-228
m_bios ==
    /\ pc = "m_bios"
    /\ \E r \in {0} \cup FailRets :
         IF r # 0
         THEN /\ ret_m' = -ENODEV
              /\ Fails("init_bios")
              /\ pc' = "destroy_wq"
         ELSE /\ ret_m' = 0
              /\ pc' = "m_modeset"
              /\ UNCHANGED failed_stage
    /\ Do("init_bios")
    /\ UNCHANGED <<ident, dev_private, priv, devname, HWS_PGA, locals, ret,
                   struct_mutex, retpc, held, faults, calls>>

\* 230-231: intel_modeset_init(dev); drm_helper_initial_config(dev, false)
m_modeset ==
    /\ pc = "m_modeset"
    /\ Acquire("modeset")
    /\ Do("modeset_init")
    /\ pc' = "m_devname"
    /\ UNCHANGED <<ident, dev_private, priv, devname, HWS_PGA, locals, ret_m,
                   ret, struct_mutex, retpc, faults, calls, failed_stage>>

\* 233-237
m_devname ==
    /\ pc = "m_devname"
    /\ \E ok \in BOOLEAN :
         IF ok
         THEN /\ devname' = TRUE
              /\ Acquire("devname")
              /\ pc' = "m_irq"
              /\ UNCHANGED <<ret_m, failed_stage>>
         ELSE /\ devname' = FALSE
              /\ ret_m' = -ENOMEM
              /\ Fails("kstrdup_devname")
              /\ pc' = "modeset_cleanup"
              /\ UNCHANGED held
    /\ Do("kstrdup_devname")
    /\ UNCHANGED <<ident, dev_private, priv, HWS_PGA, locals, ret,
                   struct_mutex, retpc, faults, calls>>

\* 239-244: on failure the name is freed (dev->devname keeps the pointer)
m_irq ==
    /\ pc = "m_irq"
    /\ \E r \in {0} \cup FailRets :
         /\ ret_m' = r
         /\ IF r # 0
            THEN /\ Release("devname")
                 /\ Fails("irq_install")
                 /\ log' = log \o <<"irq_install", "kfree_devname">>
                 /\ pc' = "modeset_cleanup"
            ELSE /\ Acquire("irq")
                 /\ Do("irq_install")
                 /\ pc' = "l_modeset_ret"
                 /\ UNCHANGED <<faults, failed_stage>>
    /\ UNCHANGED <<ident, dev_private, priv, devname, HWS_PGA, locals, ret,
                   struct_mutex, retpc, calls>>

\* modeset_cleanup jumping over the destroy_wq label (lines 248-249)
RollbackNext_SkipsWq(label) ==
    CASE label = "modeset_cleanup" -> "destroy_hws"
      [] label = "destroy_wq" -> "destroy_hws"
      [] label = "destroy_hws" -> "destroy_ringbuffer"
      [] label = "destroy_ringbuffer" -> "out"

\* the labels with destroy_ringbuffer placed above destroy_hws
RollbackNext_RingBeforeHws(label) ==
    CASE label = "modeset_cleanup" -> "destroy_wq"
      [] label = "destroy_wq" -> "destroy_ringbuffer"
      [] label = "destroy_ringbuffer" -> "destroy_hws"
      [] label = "destroy_hws" -> "out"

\* the fall-through order of the cleanup labels, 246-255
RollbackNext(label) ==
    CASE label = "modeset_cleanup" -> "destroy_wq"
      [] label = "destroy_wq" -> "destroy_hws"
      [] label = "destroy_hws" -> "destroy_ringbuffer"
      [] label = "destroy_ringbuffer" -> "out"

\* 246-247
modeset_cleanup ==
    /\ pc = "modeset_cleanup"
    /\ Release("modeset")
    /\ Do("modeset_cleanup")
    /\ pc' = RollbackNext("modeset_cleanup")
    /\ UNCHANGED <<ident, dev_private, priv, devname, HWS_PGA, locals, ret_m,
                   ret, struct_mutex, retpc, calls, failed_stage>>

\* 248-249
destroy_wq ==
    /\ pc = "destroy_wq"
    /\ Release("wq")
    /\ Do("destroy_workqueue")
    /\ pc' = RollbackNext("destroy_wq")
    /\ UNCHANGED <<ident, dev_private, priv, devname, HWS_PGA, locals, ret_m,
                   ret, struct_mutex, retpc, calls, failed_stage>>

\* 250-251: i915_cleanup_hwstatus(dev)
destroy_hws ==
    /\ pc = "destroy_hws"
    /\ pc' = "c_entry"
    /\ retpc' = RollbackNext("destroy_hws")
    /\ UNCHANGED <<ident, dev_private, priv, devname, HWS_PGA, locals, ret_m,
                   ret, struct_mutex, held, faults, log, calls,
                   failed_stage>>

\* 252-253: i915_gem_cleanup_ringbuffer(dev), no lock taken
destroy_ringbuffer ==
    /\ pc = "destroy_ringbuffer"
    /\ Release("ring")
    /\ priv' = [priv EXCEPT !.ring = FALSE]
    /\ Do("cleanup_ringbuffer")
    /\ pc' = RollbackNext("destroy_ringbuffer")
    /\ UNCHANGED <<ident, dev_private, devname, HWS_PGA, locals, ret_m, ret,
                   struct_mutex, retpc, calls, failed_stage>>

\* 254-255: return ret
out ==
    /\ pc = "out"
    /\ pc' = "l_modeset_ret"
    /\ UNCHANGED <<ident, dev_private, priv, devname, HWS_PGA, locals, ret_m,
                   ret, struct_mutex, retpc, held, faults, log, calls,
                   failed_stage>>

\* ------------------------------------------------------------------------
\* i915_init_hwstatus
\* ------------------------------------------------------------------------
\* 105-110: choose the strategy
h_entry ==
    /\ pc = "h_entry"
    /\ Do("init_hwstatus")
    /\ pc' = IF ~IS_G33(device) THEN "h_pci_alloc" ELSE "h_search"
    /\ UNCHANGED <<ident, dev_private, priv, devname, HWS_PGA, locals, ret_m,
                   ret, struct_mutex, retpc, held, faults, calls,
                   failed_stage>>

\* 111-122, 161-165: coherent page; program the register with its bus
\* address; zero the page
h_pci_alloc ==
    /\ pc = "h_pci_alloc"
    /\ \E ok \in BOOLEAN, addr \in DmaAddrs :
         IF ok
         THEN /\ priv' = [priv EXCEPT !.status_page_dmah = TRUE,
                                      !.hws_vaddr = "dmah",
                                      !.dma_status_page = addr]
              /\ Acquire("status_dmah")
              /\ HWS_PGA' = addr
              /\ ret_m' = 0
              /\ log' = log \o <<"pci_alloc", "write_HWS_PGA">>
         ELSE /\ ret_m' = -ENOMEM
              /\ UNCHANGED <<priv, held, HWS_PGA, log>>
    /\ pc' = "m_hws_ret"
    /\ UNCHANGED <<ident, dev_private, devname, locals, ret, struct_mutex,
                   retpc, faults, calls, failed_stage>>

\* 124-131: drm_memrange_search_free(&dev_priv->vram, ...)
h_search ==
    /\ pc = "h_search"
    /\ \E found \in BOOLEAN :
         IF found
         THEN /\ pc' = "h_get_block"
              /\ UNCHANGED ret_m
         ELSE /\ ret_m' = -ENOMEM
              /\ pc' = "m_hws_ret"
    /\ Do("search_free")
    /\ UNCHANGED <<ident, dev_private, priv, devname, HWS_PGA, locals, ret,
                   struct_mutex, retpc, held, faults, calls, failed_stage>>

\* 133-141: pin the block found
h_get_block ==
    /\ pc = "h_get_block"
    /\ \E ok \in BOOLEAN, start \in HwsOffsets :
         IF ok
         THEN /\ priv' = [priv EXCEPT !.hws = TRUE, !.hws_agpoffset = start]
              /\ Acquire("hws_block")
              /\ pc' = "h_ioremap"
              /\ UNCHANGED ret_m
         ELSE /\ ret_m' = -EINVAL
              /\ pc' = "m_hws_ret"
              /\ UNCHANGED <<priv, held>>
    /\ Do("get_block")
    /\ UNCHANGED <<ident, dev_private, devname, HWS_PGA, locals, ret,
                   struct_mutex, retpc, faults, calls, failed_stage>>

\* 142-165, 167-170: map the block; on failure out_free releases nothing
h_ioremap ==
    /\ pc = "h_ioremap"
    /\ \E ok \in BOOLEAN :
         IF ok
         THEN /\ priv' = [priv EXCEPT !.hws_map_handle = TRUE,
                                      !.hws_vaddr = "hws_map"]
              /\ Acquire("hws_map")
              /\ HWS_PGA' = priv.hws_agpoffset
              /\ ret_m' = 0
              /\ log' = log \o <<"ioremap", "write_HWS_PGA">>
         ELSE /\ priv' = [priv EXCEPT !.hws_agpoffset = 0]
              /\ ret_m' = -ENOMEM
              /\ Do("ioremap")
              /\ UNCHANGED <<held, HWS_PGA>>
    /\ pc' = "m_hws_ret"
    /\ UNCHANGED <<ident, dev_private, devname, locals, ret, struct_mutex,
                   retpc, faults, calls, failed_stage>>

\* ------------------------------------------------------------------------
\* i915_cleanup_hwstatus
\* ------------------------------------------------------------------------
\* 175-177
c_entry ==
    /\ pc = "c_entry"
    /\ Do("cleanup_hwstatus")
    /\ pc' = IF ~IS_G33(device) THEN "c_dmah" ELSE "c_unmap"
    /\ UNCHANGED <<ident, dev_private, priv, devname, HWS_PGA, locals, ret_m,
                   ret, struct_mutex, retpc, held, faults, calls,
                   failed_stage>>

\* 178-179
c_dmah ==
    /\ pc = "c_dmah"
    /\ IF priv.status_page_dmah
       THEN /\ Release("status_dmah")
            /\ Do("pci_free")
       ELSE UNCHANGED <<held, faults, log>>
    /\ pc' = "c_write"
    /\ UNCHANGED <<ident, dev_private, priv, devname, HWS_PGA, locals, ret_m,
                   ret, struct_mutex, retpc, calls, failed_stage>>

\* 181-182
c_unmap ==
    /\ pc = "c_unmap"
    /\ IF priv.hws_map_handle
       THEN /\ Release("hws_map")
            /\ Do("ioremapfree")
       ELSE UNCHANGED <<held, faults, log>>
    /\ pc' = "c_put"
    /\ UNCHANGED <<ident, dev_private, priv, devname, HWS_PGA, locals, ret_m,
                   ret, struct_mutex, retpc, calls, failed_stage>>

\* 183-184
c_put ==
    /\ pc = "c_put"
    /\ IF priv.hws
       THEN /\ Release("hws_block")
            /\ Do("put_block")
       ELSE UNCHANGED <<held, faults, log>>
    /\ pc' = "c_write"
    /\ UNCHANGED <<ident, dev_private, priv, devname, HWS_PGA, locals, ret_m,
                   ret, struct_mutex, retpc, calls, failed_stage>>

\* the sentinel written only when a status page had been allocated
c_write_OnlyIfAllocated ==
    /\ pc = "c_write"
    /\ MmioOk
    /\ IF priv.status_page_dmah \/ priv.hws
       THEN /\ HWS_PGA' = HWS_DISABLED
            /\ Do("write_HWS_PGA")
       ELSE UNCHANGED <<HWS_PGA, log>>
    /\ pc' = retpc
    /\ UNCHANGED <<ident, dev_private, priv, devname, locals, ret_m, ret,
                   struct_mutex, retpc, held, faults, calls, failed_stage>>

\* 186-187: I915_WRITE(HWS_PGA, 0x1ffff000)
c_write ==
    /\ pc = "c_write"
    /\ MmioOk
    /\ HWS_PGA' = HWS_DISABLED
    /\ Do("write_HWS_PGA")
    /\ pc' = retpc
    /\ UNCHANGED <<ident, dev_private, priv, devname, locals, ret_m, ret,
                   struct_mutex, retpc, held, faults, calls, failed_stage>>

\* the first register write of unload stores the sentinel to HWS_PGA
\* (for the store of 0 to PRB0_CTL, line 367)
u_prb0_WritesHwsPga ==
    /\ pc = "u_prb0"
    /\ IF MmioOk
       THEN /\ HWS_PGA' = HWS_DISABLED
            /\ Do("write_HWS_PGA")
            /\ pc' = "u_irq"
            /\ UNCHANGED faults
       ELSE /\ \E kind \in IF dev_private = "NULL" THEN {"null_deref"}
                           ELSE IF dev_private = "freed"
                                THEN {"use_after_free"}
                                ELSE {"bad_mapping"} :
                 faults' = faults \cup {<<kind, "dev_priv">>}
            /\ pc' = "oops"
            /\ UNCHANGED <<HWS_PGA, log>>
    /\ UNCHANGED <<ident, dev_private, priv, devname, locals, ret_m,
                   ret, struct_mutex, retpc, held, calls, failed_stage>>

\* ------------------------------------------------------------------------
\* i915_driver_unload
\* ------------------------------------------------------------------------
\* 365-367: dev_priv = dev->dev_private; I915_WRITE(PRB0_CTL, 0).  The
\* store reads dev_priv->mmio_map.  With dev_private NULL that is a null
\* dereference.  With dev_private dangling it reads freed memory; the
\* mapping the pointer there designated has been removed or was never
\* installed, so with the stale contents as with allocator poison the
\* store faults.
u_prb0 ==
    /\ pc = "u_prb0"
    /\ IF MmioOk
       THEN /\ Do("write_PRB0_CTL")
            /\ pc' = "u_irq"
            /\ UNCHANGED faults
       ELSE /\ \E kind \in IF dev_private = "NULL" THEN {"null_deref"}
                           ELSE IF dev_private = "freed"
                                THEN {"use_after_free"}
                                ELSE {"bad_mapping"} :
                 faults' = faults \cup {<<kind, "dev_priv">>}
            /\ pc' = "oops"
            /\ UNCHANGED log
    /\ UNCHANGED <<ident, dev_private, priv, devname, HWS_PGA, locals, ret_m,
                   ret, struct_mutex, retpc, held, calls, failed_stage>>

\* 369-370
u_irq ==
    /\ pc = "u_irq"
    /\ IF modeset
       THEN /\ Release("irq")
            /\ Do("irq_uninstall")
            /\ pc' = "u_modeset_cleanup"
       ELSE /\ pc' = "u_hws"
            /\ UNCHANGED <<held, faults, log>>
    /\ UNCHANGED <<ident, dev_private, priv, devname, HWS_PGA, locals, ret_m,
                   ret, struct_mutex, retpc, calls, failed_stage>>

\* 371
u_modeset_cleanup ==
    /\ pc = "u_modeset_cleanup"
    /\ Release("modeset")
    /\ Do("modeset_cleanup")
    /\ pc' = "u_destroy_wq"
    /\ UNCHANGED <<ident, dev_private, priv, devname, HWS_PGA, locals, ret_m,
                   ret, struct_mutex, retpc, calls, failed_stage>>

\* 372
u_destroy_wq ==
    /\ pc = "u_destroy_wq"
    /\ Release("wq")
    /\ Do("destroy_workqueue")
    /\ pc' = "u_hws"
    /\ UNCHANGED <<ident, dev_private, priv, devname, HWS_PGA, locals, ret_m,
                   ret, struct_mutex, retpc, calls, failed_stage>>

\* 395: i915_cleanup_hwstatus(dev)
u_hws ==
    /\ pc = "u_hws"
    /\ pc' = "c_entry"
    /\ retpc' = "u_lock"
    /\ UNCHANGED <<ident, dev_private, priv, devname, HWS_PGA, locals, ret_m,
                   ret, struct_mutex, held, faults, log, calls,
                   failed_stage>>

\* 397-398: mutex_lock(&dev->struct_mutex)
u_lock ==
    /\ pc = "u_lock"
    /\ IF modeset
       THEN /\ struct_mutex' = TRUE
            /\ pc' = "u_cleanup_ring"
       ELSE /\ pc' = "u_rmmap"
            /\ UNCHANGED struct_mutex
    /\ UNCHANGED <<ident, dev_private, priv, devname, HWS_PGA, locals, ret_m,
                   ret, retpc, held, faults, log, calls, failed_stage>>

\* 399: i915_gem_cleanup_ringbuffer(dev)
u_cleanup_ring ==
    /\ pc = "u_cleanup_ring"
    /\ Release("ring")
    /\ priv' = [priv EXCEPT !.ring = FALSE]
    /\ Do("cleanup_ringbuffer")
    /\ pc' = "u_unlock"
    /\ UNCHANGED <<ident, dev_private, devname, HWS_PGA, locals, ret_m, ret,
                   struct_mutex, retpc, calls, failed_stage>>

\* 400: mutex_unlock(&dev->struct_mutex)
u_unlock ==
    /\ pc = "u_unlock"
    /\ struct_mutex' = FALSE
    /\ pc' = "u_takedown"
    /\ UNCHANGED <<ident, dev_private, priv, devname, HWS_PGA, locals, ret_m,
                   ret, retpc, held, faults, log, calls, failed_stage>>

\* 401: drm_memrange_takedown(&dev_priv->vram)
u_takedown ==
    /\ pc = "u_takedown"
    /\ Release("vram")
    /\ priv' = [priv EXCEPT !.vram = FALSE]
    /\ Do("memrange_takedown")
    /\ pc' = "u_lastclose"
    /\ UNCHANGED <<ident, dev_private, devname, HWS_PGA, locals, ret_m, ret,
                   struct_mutex, retpc, calls, failed_stage>>

\* 402: i915_gem_lastclose(dev)
u_lastclose ==
    /\ pc = "u_lastclose"
    /\ Release("gem")
    /\ priv' = [priv EXCEPT !.gtt = FALSE]
    /\ Do("gem_lastclose")
    /\ pc' = "u_rmmap"
    /\ UNCHANGED <<ident, dev_private, devname, HWS_PGA, locals, ret_m, ret,
                   struct_mutex, retpc, calls, failed_stage>>

\* 411-412
u_rmmap ==
    /\ pc = "u_rmmap"
    /\ Release("mmio_map")
    /\ Do("rmmap")
    /\ pc' = "u_free"
    /\ UNCHANGED <<ident, dev_private, priv, devname, HWS_PGA, locals, ret_m,
                   ret, struct_mutex, retpc, calls, failed_stage>>

\* 414-417: free the block, clear dev->dev_private, return 0
u_free ==
    /\ pc = "u_free"
    /\ Release("priv")
    /\ Do("free_priv")
    /\ dev_private' = "NULL"
    /\ Return("unload", 0)
    /\ UNCHANGED <<ident, priv, devname, HWS_PGA, locals, ret_m, ret,
                   struct_mutex, retpc, failed_stage>>

\* ------------------------------------------------------------------------
\* Specification
\* ------------------------------------------------------------------------
Next ==
    \/ CallLoad \/ CallUnload
    \/ l_alloc \/ l_mmio \/ l_addmap \/ l_modeset \/ l_modeset_ret
    \/ out_rmmap \/ free_priv
    \/ m_probe \/ m_memrange_init \/ m_gem_do_init \/ m_ring \/ m_hws_ret
    \/ m_flags \/ m_wq \/ m_bios \/ m_modeset \/ m_devname \/ m_irq
    \/ modeset_cleanup \/ destroy_wq \/ destroy_hws \/ destroy_ringbuffer
    \/ out
    \/ h_entry \/ h_pci_alloc \/ h_search \/ h_get_block \/ h_ioremap
    \/ c_entry \/ c_dmah \/ c_unmap \/ c_put \/ c_write
    \/ u_prb0 \/ u_irq \/ u_modeset_cleanup \/ u_destroy_wq \/ u_hws
    \/ u_lock \/ u_cleanup_ring \/ u_unlock \/ u_takedown \/ u_lastclose
    \/ u_rmmap \/ u_free

Spec == Init /\ [][Next]_vars

\* ------------------------------------------------------------------------
\* Vocabulary of the properties
\* ------------------------------------------------------------------------
InLog(ev) == \E i \in DOMAIN log : log[i] = ev

LastCall == calls[Len(calls)]

\* an unload is in progress (or has crashed): its first statement either
\* logs the PRB0_CTL write or faults
InUnload ==
    \/ pc \in {"u_prb0", "oops"}
    \/ pc # "idle" /\ log # <<>> /\ log[1] = "write_PRB0_CTL"

\* the bring-up stages in order, by the event each logs when entered
Stages ==
    <<"probe_agp", "memrange_init", "gem_do_init", "init_ringbuffer",
      "init_hwstatus", "mutex_init", "create_workqueue", "init_bios",
      "modeset_init", "kstrdup_devname", "irq_install">>

StageNo(ev) == CHOOSE k \in DOMAIN Stages : Stages[k] = ev

IsStage(ev) == \E k \in DOMAIN Stages : Stages[k] = ev

\* what stages 4..11 acquire
StageResources ==
    {"ring", "status_dmah", "hws_block", "hws_map", "wq", "modeset",
     "devname", "irq"}

\* i915_load_modeset_init has just returned
BringUpReturned == pc = "l_modeset_ret"

\* i915_cleanup_hwstatus has run to its end in this call
HwsTeardownDone ==
    /\ InLog("cleanup_hwstatus")
    /\ pc \notin {"c_entry", "c_dmah", "c_unmap", "c_put", "c_write"}

\* the G33 mapping failed in this call: the ioremap was not followed by
\* the register write
IoremapFailed ==
    \E i \in DOMAIN log :
        /\ log[i] = "ioremap"
        /\ (i = Len(log) \/ log[i + 1] # "write_HWS_PGA")

\* ------------------------------------------------------------------------
\* C1.  If a bring-up stage fails, then when i915_load_modeset_init returns
\* everything the stages acquired has been released and no stage after the
\* failed one was entered.  (Stated as the claim has it; the code violates
\* it: the result of the probe is dropped, and a G33 mapping failure leaves
\* the block pinned.)
\* ------------------------------------------------------------------------
C1_FailedStageRolledBack ==
    (BringUpReturned /\ failed_stage # "none") =>
        /\ held \cap StageResources = {}
        /\ \A i \in DOMAIN log :
               IsStage(log[i]) => StageNo(log[i]) <= StageNo(failed_stage)

\* ------------------------------------------------------------------------
\* C2.  After a load that failed (having allocated the private block), an
\* unload commits no memory fault: it reads no freed block and releases
\* nothing twice.  (Stated as the claim has it; the code violates it:
\* dev->dev_private is left pointing at the freed block.)
\* ------------------------------------------------------------------------
C2_UnloadAfterFailedLoadSafe ==
    (/\ InUnload
     /\ calls # <<>>
     /\ LastCall[1] = "load"
     /\ LastCall[2] # 0
     /\ dev_private = "freed") => faults = {}

\* ------------------------------------------------------------------------
\* C3.  A second unload directly after the unload that followed a
\* successful load commits no memory fault.  (Stated as the claim has it;
\* the code violates it: the second call dereferences the NULL
\* dev->dev_private.)
\* ------------------------------------------------------------------------
C3_SecondUnloadSafe ==
    (/\ InUnload
     /\ Len(calls) >= 2
     /\ calls[Len(calls)] = <<"unload", 0>>
     /\ calls[Len(calls) - 1] = <<"load", 0>>) => faults = {}

\* ------------------------------------------------------------------------
\* C4.  In mode-setting mode a successful load followed by unload leaves
\* no resource held that was not held before the load.  (Stated as the
\* claim has it; the code violates it: unload never frees dev->devname.)
\* ------------------------------------------------------------------------
C4_RoundTripReleasesAll ==
    (/\ modeset
     /\ pc = "idle"
     /\ calls = <<<<"load", 0>>, <<"unload", 0>>>>) => held = {}

\* ------------------------------------------------------------------------
\* C5.  On G33, once the mapping of the pinned block has failed, the block
\* is no longer pinned when i915_init_hwstatus returns, nor at any later
\* point of the failing load.  (Stated as the claim has it; the code
\* violates it: the out_free label releases nothing.)
\* ------------------------------------------------------------------------
C5_PinnedBlockReleasedOnMapFailure ==
    (/\ IS_G33(device)
     /\ IoremapFailed
     /\ pc \in {"m_hws_ret", "destroy_ringbuffer", "out", "l_modeset_ret",
                "out_rmmap", "free_priv", "idle"}) => "hws_block" \notin held

\* ------------------------------------------------------------------------
\* C6.  In mode-setting mode load returns success only if every bring-up
\* stage, the capacity probe included, succeeded.  (Stated as the claim has
\* it; the code violates it: the probe's return value is never looked at.)
\* ------------------------------------------------------------------------
C6_LoadAllOrNothing ==
    (/\ modeset
     /\ pc = "idle"
     /\ calls # <<>>
     /\ LastCall = <<"load", 0>>) => failed_stage = "none"

\* ------------------------------------------------------------------------
\* C7.  Whenever i915_probe_agp succeeds, preallocated_size <=
\* aperture_size.
\* ------------------------------------------------------------------------
\* i915_probe_agp has just returned success to the bring-up
ProbeSucceeded == pc = "m_memrange_init" /\ probe_ret = 0

\* the aperture is between 64 MiB and 512 MiB
ApertureInRange ==
    /\ WLe(WMul(MiB, 64), agp_size)
    /\ WLe(agp_size, WMul(MiB, 512))

C8_TeardownLeavesSentinel ==
    HwsTeardownDone => HWS_PGA = HWS_DISABLED

\* teardown has run in a load that never ran the status-page init
C8_Witness ==
    /\ HwsTeardownDone
    /\ ~modeset
    /\ ~priv.status_page_dmah /\ ~priv.hws /\ ~priv.hws_map_handle
    /\ HWS_PGA = HWS_DISABLED

\* ------------------------------------------------------------------------
\* C9.  Teardown steps run in the reverse of the order of their setup
\* steps.
\* ------------------------------------------------------------------------
SetupEvents ==
    <<"memrange_init", "gem_do_init", "init_ringbuffer", "init_hwstatus",
      "create_workqueue", "modeset_init", "irq_install">>

\* the teardown of each setup step, in the setup's position
TeardownEvents ==
    <<"memrange_takedown", "gem_lastclose", "cleanup_ringbuffer",
      "cleanup_hwstatus", "destroy_workqueue", "modeset_cleanup",
      "irq_uninstall">>

\* the same with the range allocator and the memory manager exchanged
TeardownEventsAsCoded ==
    <<"gem_lastclose", "memrange_takedown", "cleanup_ringbuffer",
      "cleanup_hwstatus", "destroy_workqueue", "modeset_cleanup",
      "irq_uninstall">>

IsIn(seq, ev) == \E k \in DOMAIN seq : seq[k] = ev

PosIn(seq, ev) == CHOOSE k \in DOMAIN seq : seq[k] = ev

\* the events of seq occur in the log in increasing position
Ascending(seq) ==
    \A i, j \in DOMAIN log :
        (i < j /\ IsIn(seq, log[i]) /\ IsIn(seq, log[j])) =>
            PosIn(seq, log[i]) < PosIn(seq, log[j])

\* the events of seq occur in the log in decreasing position
Descending(seq) ==
    \A i, j \in DOMAIN log :
        (i < j /\ IsIn(seq, log[i]) /\ IsIn(seq, log[j])) =>
            PosIn(seq, log[i]) > PosIn(seq, log[j])

\* C9 as claimed.  Fails in unload: the range allocator, set up first, is
\* taken down before the memory manager's final close.
C9_TeardownReversesSetup ==
    Ascending(SetupEvents) /\ Descending(TeardownEvents)

\* C9 as amended: interrupt, mode-setting, work queue, status page and
\* ring buffer are torn down in the reverse of their setup order, before
\* the range allocator and the memory manager; of those two the range
\* allocator, though set up first, is taken down first.
C9_TeardownOrderAsCoded ==
    Ascending(SetupEvents) /\ Descending(TeardownEventsAsCoded)

\* an unload in mode-setting mode that has run all seven teardown steps
C9_Witness ==
    /\ pc = "u_rmmap"
    /\ modeset
    /\ \A k \in DOMAIN TeardownEvents : InLog(TeardownEvents[k])

\* ------------------------------------------------------------------------
\* C10.  Ring-buffer cleanup runs with the command-submission lock
\* (dev_priv->cmdbuf_mutex) held.  (Stated as the claim has it; the code
\* violates it: the rollback path takes no lock at all, and unload takes
\* dev->struct_mutex.)
\* ------------------------------------------------------------------------
C10_RingCleanupUnderCmdbufLock ==
    pc \in {"destroy_ringbuffer", "u_cleanup_ring"} =>
        priv.cmdbuf_mutex = "locked"

\* ------------------------------------------------------------------------
\* C11.  When i915_probe_agp fails it has written neither output, and the
\* bring-up passes neither value on to the range allocator or the memory
\* manager.  (Stated as the claim has it; the code violates it: both
\* outputs are stored to before the stolen-memory field is decoded, and
\* the caller, which drops the return value, goes on to hand agp_size and
\* prealloc_size to both.)
\* ------------------------------------------------------------------------
C11_FailedProbeYieldsNothing ==
    probe_ret # 0 =>
        /\ ~probe_in.written
        /\ ~InLog("memrange_init")
        /\ ~InLog("gem_do_init")

\* ------------------------------------------------------------------------
\* C12.  Whenever the host bridge is found and the stolen-memory field of
\* the control register holds the disabled encoding, or any value other
\* than the seven recognised sizes, i915_probe_agp fails, for every device
\* id and every BAR2 length.
\* ------------------------------------------------------------------------
\* i915_probe_agp has just returned to the bring-up
ProbeReturned == pc = "m_memrange_init"

\* the stolen-memory field the probe read
GmsField == BitAnd(probe_in.tmp, INTEL_855_GMCH_GMS_MASK)

\* the encodings with a case of their own that yields a size
RecognisedGms ==
    {INTEL_855_GMCH_GMS_STOLEN_1M, INTEL_855_GMCH_GMS_STOLEN_4M,
     INTEL_855_GMCH_GMS_STOLEN_8M, INTEL_855_GMCH_GMS_STOLEN_16M,
     INTEL_855_GMCH_GMS_STOLEN_32M, INTEL_915G_GMCH_GMS_STOLEN_48M,
     INTEL_915G_GMCH_GMS_STOLEN_64M}

C12_DisabledOrUnknownFails ==
    (ProbeReturned /\ probe_in.bridge /\ GmsField \notin RecognisedGms) =>
        probe_ret = -1

\* a 9xx device with a 256 MiB BAR2 whose stolen memory is disabled
C12_Witness ==
    /\ ProbeReturned
    /\ probe_in.bridge
    /\ GmsField = INTEL_855_GMCH_GMS_DISABLED
    /\ IS_I9XX(device)
    /\ probe_in.bar2 = WMul(MiB, 256)
    /\ probe_ret = -1

\* ------------------------------------------------------------------------
\* C13.  On every successful i915_probe_agp, preallocated_size equals
\* m * 1 MiB - ((aperture_size / 1024) + 4096) in unsigned long arithmetic,
\* where m in {1, 4, 8, 16, 32, 48, 64} is the multiplier the stolen-memory
\* field selects and aperture_size is the aperture the same call returns;
\* aperture 64 MiB with encoding 8M gives 8,318,976 bytes.
\* ------------------------------------------------------------------------
\* the multipliers by the value of the three-bit field, 1 (1M) to 7 (64M)
Multipliers == <<1, 4, 8, 16, 32, 48, 64>>

\* an integer of magnitude below 2^31 as an unsigned long
IntToWord(d) ==
    IF d >= 0
    THEN <<d \div Limb, d % Limb>>
    ELSE <<Limb - 1 - ((-d - 1) \div Limb), Limb - 1 - ((-d - 1) % Limb)>>

\* the right-hand side of the claim, computed in the integers from the
\* field read and the aperture returned
ExpectedPrealloc ==
    LET m        == Multipliers[GmsField \div 16]
        aperture == agp_size[1] * 64 + (agp_size[2] \div 1024)
    IN  IntToWord(m * 1048576 - (aperture + 4096))

ModesetOnlyTeardown ==
    {"irq_uninstall", "modeset_cleanup", "destroy_workqueue",
     "cleanup_ringbuffer", "memrange_takedown"}

\* the last call was a load that got as far as installing the mapping
LoadInstalledMapping ==
    /\ pc = "idle"
    /\ calls # <<>>
    /\ LastCall[1] = "load"
    /\ log # <<>>
    /\ log[Len(log)] = "addmap"
    /\ "mmio_map" \in held

C14_NoBringUpWithoutModeset ==
    ~modeset =>
        /\ \A i \in DOMAIN log :
               ~IsStage(log[i]) /\ log[i] \notin ModesetOnlyTeardown
        /\ StageResources \cap held = {}
        /\ LoadInstalledMapping => LastCall = <<"load", 0>>
        /\ (pc = "idle" /\ calls # <<>> /\ LastCall = <<"load", 0>>) =>
               log = <<"alloc_priv", "addmap">>

\* a load and an unload, both run to their end without mode-setting
C14_Witness ==
    /\ ~modeset
    /\ pc = "idle"
    /\ calls = <<<<"load", 0>>, <<"unload", 0>>>>
    /\ InLog("cleanup_hwstatus")
    /\ InLog("rmmap")

\* ------------------------------------------------------------------------
\* C15.  On every path on which a work queue was created (unload after a
\* successful mode-setting load, and rollback of a failed load) the work
\* queue is destroyed before the private block is freed, and exactly once.
\* ------------------------------------------------------------------------
\* how many times ev was logged in this call
Occurrences(ev) == Cardinality({i \in DOMAIN log : log[i] = ev})

\* ev1 was logged before ev2 in this call
Precedes(ev1, ev2) ==
    \E i, j \in DOMAIN log : i < j /\ log[i] = ev1 /\ log[j] = ev2

C15_WorkQueueDestroyedOnceBeforeFree ==
    /\ Occurrences("destroy_workqueue") <= 1
    /\ <<"double_release", "wq">> \notin faults
    /\ "wq" \in held => "priv" \in held
    /\ (InLog("free_priv") /\ priv.wq) =>
           /\ Occurrences("destroy_workqueue") = 1
           /\ Precedes("destroy_workqueue", "free_priv")

\* a load that created the work queue, failed at a later stage and has
\* freed the private block
C15_Witness ==
    /\ pc = "idle"
    /\ calls # <<>>
    /\ LastCall[1] = "load" /\ LastCall[2] # 0
    /\ InLog("kstrdup_devname")
    /\ priv.wq
    /\ Precedes("destroy_workqueue", "free_priv")

\* ------------------------------------------------------------------------
\* C16.  The first hardware-visible action of unload, before any
\* interrupt, mode-setting, work-queue or status-page teardown, is an
\* unconditional write of the disabled sentinel to the status register.
\* ------------------------------------------------------------------------
\* the first statement of i915_driver_unload has run, nothing else has
UnloadFirstWriteDone == pc = "u_irq"

\* the statements of i915_driver_unload past the first, with those of the
\* i915_cleanup_hwstatus it calls
UnloadRunning ==
    \/ pc \in {"u_irq", "u_modeset_cleanup", "u_destroy_wq", "u_hws",
               "u_lock", "u_cleanup_ring", "u_unlock", "u_takedown",
               "u_lastclose", "u_rmmap", "u_free"}
    \/ pc \in {"c_entry", "c_dmah", "c_unmap", "c_put", "c_write"}
       /\ retpc = "u_lock"

\* HWS_PGA holds the address this code programmed for the status page:
\* the bus address of the coherent page, or on G33 the offset of the
\* pinned block
PointsAtPage ==
    IF ~IS_G33(device)
    THEN priv.status_page_dmah /\ HWS_PGA = priv.dma_status_page
    ELSE priv.hws_map_handle /\ HWS_PGA = priv.hws_agpoffset

\* C16 as claimed.  Fails: the first write of unload stores 0 to the ring
\* control register PRB0_CTL and leaves HWS_PGA alone.
C16_SentinelWrittenFirst ==
    UnloadFirstWriteDone =>
        log = <<"write_HWS_PGA">> /\ HWS_PGA = HWS_DISABLED

\* C16 as amended: the first hardware-visible action of unload is an
\* unconditional write of 0 to PRB0_CTL, which leaves HWS_PGA pointing at
\* the status page; the sentinel is written to HWS_PGA once, as the last
\* step of the status-page teardown, which in mode-setting mode comes
\* after interrupt uninstall, mode-setting cleanup and work-queue
\* destruction.
C16_RingStoppedFirst ==
    /\ UnloadFirstWriteDone =>
           /\ log = <<"write_PRB0_CTL">>
           /\ modeset => PointsAtPage
    /\ UnloadRunning =>
           /\ log[1] = "write_PRB0_CTL"
           /\ Occurrences("write_HWS_PGA") <= 1
           /\ InLog("write_HWS_PGA") =>
                  /\ Precedes("cleanup_hwstatus", "write_HWS_PGA")
                  /\ modeset =>
                         /\ Precedes("irq_uninstall", "write_HWS_PGA")
                         /\ Precedes("modeset_cleanup", "write_HWS_PGA")
                         /\ Precedes("destroy_workqueue", "write_HWS_PGA")

\* unload in mode-setting mode has written the sentinel, after the
\* interrupt, mode-setting and work-queue teardown
C16_Witness ==
    /\ pc = "u_lock"
    /\ modeset
    /\ log[1] = "write_PRB0_CTL"
    /\ log[Len(log)] = "write_HWS_PGA"
    /\ Precedes("destroy_workqueue", "write_HWS_PGA")
    /\ HWS_PGA = HWS_DISABLED

\* ------------------------------------------------------------------------
\* C17.  When bring-up fails at ring-buffer init or later, the cleanup
\* actions executed are exactly those of the already-succeeded stages from
\* ring-buffer init onward, in reverse order: none for a ring-buffer
\* failure; ring-buffer cleanup for a status-page failure; status-page
\* teardown, ring-buffer cleanup for a work-queue failure; work-queue
\* destroy before those for a firmware-table failure; mode-setting cleanup
\* before those for a name-duplication failure; freeing the name before
\* those for an interrupt-install failure.
\* ------------------------------------------------------------------------
IsCleanupAction(ev) ==
    ev \in {"kfree_devname", "modeset_cleanup", "destroy_workqueue",
            "cleanup_hwstatus", "cleanup_ringbuffer"}

\* the cleanup actions of this call, in the order they ran
CleanupsRun == SelectSeq(log, IsCleanupAction)

\* the stage entered last in this call
LastStage ==
    LET last == CHOOSE i \in DOMAIN log :
                    /\ IsStage(log[i])
                    /\ \A j \in DOMAIN log : IsStage(log[j]) => j <= i
    IN  log[last]

\* what the claim lists for a failure of each stage
ExpectedCleanups(stage) ==
    CASE stage = "init_ringbuffer" -> <<>>
      [] stage = "init_hwstatus" -> <<"cleanup_ringbuffer">>
      [] stage = "create_workqueue" ->
             <<"cleanup_hwstatus", "cleanup_ringbuffer">>
      [] stage = "init_bios" ->
             <<"destroy_workqueue", "cleanup_hwstatus",
               "cleanup_ringbuffer">>
      [] stage = "kstrdup_devname" ->
             <<"modeset_cleanup", "destroy_workqueue", "cleanup_hwstatus",
               "cleanup_ringbuffer">>
      [] stage = "irq_install" ->
             <<"kfree_devname", "modeset_cleanup", "destroy_workqueue",
               "cleanup_hwstatus", "cleanup_ringbuffer">>

C17_RollbackIsExact ==
    (BringUpReturned /\ ret_m # 0) =>
        CleanupsRun = ExpectedCleanups(LastStage)

\* the interrupt install failed and all five cleanup actions have run
C17_Witness ==
    /\ BringUpReturned
    /\ ret_m # 0
    /\ LastStage = "irq_install"
    /\ Len(CleanupsRun) = 5

\* ------------------------------------------------------------------------
\* C18.  On every failing path of i915_driver_load after the private block
\* was allocated (no register window, mapping failure, bring-up failure)
\* the block is freed exactly once, and the register mapping is removed
\* exactly once if and only if it had been installed; when the allocation
\* of the block itself fails nothing further runs.
\* ------------------------------------------------------------------------
\* i915_driver_load has just returned an error
LoadFailed ==
    /\ pc = "idle"
    /\ calls # <<>>
    /\ LastCall[1] = "load"
    /\ LastCall[2] # 0

C18_FailedLoadFreesOnce ==
    LoadFailed =>
        IF InLog("alloc_priv")
        THEN /\ Occurrences("free_priv") = 1
             /\ log[Len(log)] = "free_priv"
             /\ "priv" \notin held
             /\ Occurrences("rmmap") = IF priv.mmio_map THEN 1 ELSE 0
             /\ "mmio_map" \notin held
             /\ <<"double_release", "priv">> \notin faults
             /\ <<"double_release", "mmio_map">> \notin faults
        ELSE /\ log = <<>>
             /\ LastCall[2] = -ENOMEM

\* a load whose bring-up failed: mapping removed, then block freed
C18_Witness ==
    /\ LoadFailed
    /\ InLog("init_ringbuffer")
    /\ priv.mmio_map
    /\ Precedes("rmmap", "free_priv")

\* ------------------------------------------------------------------------
\* C19.  Whenever HWS_PGA holds a status-page address written by this code
\* (not the sentinel), the page it designates is still allocated: the
\* coherent allocation not yet freed, or the stolen block still pinned and
\* mapped.  (Stated as the claim has it; the code violates it:
\* i915_cleanup_hwstatus releases the page first and rewrites the register
\* last.)
\* ------------------------------------------------------------------------
\* the status page of the strategy in use is allocated
StatusPageAllocated ==
    IF ~IS_G33(device)
    THEN "status_dmah" \in held
    ELSE "hws_block" \in held /\ "hws_map" \in held

C19_RegisterNeverPointsAtFreedPage ==
    (PointsAtPage /\ HWS_PGA # HWS_DISABLED) => StatusPageAllocated

\* ------------------------------------------------------------------------
\* C20.  In every successful i915_probe_agp the overhead
\* (aperture_size / 1024) + 4096 is no larger than the selected stolen
\* size m * 1 MiB, so the subtraction that produces preallocated_size
\* never wraps around.
\* ------------------------------------------------------------------------
\* (aperture_size / 1024) + 4096 for the aperture returned, as an integer
OverheadBytes == agp_size[1] * 64 + (agp_size[2] \div 1024) + 4096

\* m * 1 MiB for the field read, as an integer
StolenBytes == Multipliers[GmsField \div 16] * 1048576

\* the aperture returned is at most 512 MiB
ApertureAtMost512M == WLe(agp_size, WMul(MiB, 512))

=============================================================================
